---- MODULE Spec2Model ----
(***************************************************************************)
(* Model of dynip_update.py: one process invocation ("run") of main()      *)
(* reads its configuration from the environment, detects three addresses   *)
(* and reconciles three DNS records of a CloudFlare zone; an external      *)
(* scheduler invokes the process again and again.                          *)
(*                                                                         *)
(* Optional[str] values are modelled as sequences: <<>> is Python's None   *)
(* and <<s>> is the string s, so that truthiness (None and "" are false)   *)
(* is computed as Python computes it.  An address string is modelled by    *)
(* the tuple of its numbers (4 octets, or 8 groups of 16 bits); a string   *)
(* that is not an address is a tuple of another length.                    *)
(***************************************************************************)
EXTENDS Integers, Sequences, FiniteSets, TLC

\* Number of process invocations the scheduler makes in a behaviour.
MaxRuns == 1

\* The same, in the behaviours in which no HTTP request fails.
MaxReliableRuns == 2
MaxAddrs == 2

\* ttl of every record the program writes.
TTL == 120

None == <<>>
Some(x) == <<x>>

\* Python truthiness of an Optional[str]: None and "" are false.
Truthy(v) == v # None /\ v[1] # ""

\* Python `a or b` on Optional[str].
PyOr(a, b) == IF Truthy(a) THEN a ELSE b

\* str.lower() on the values CF_PROXIED takes in the model.
Lower(s) == CASE s = "True" -> "true"
              [] s = "TRUE" -> "true"
              [] OTHER -> s

(***************************************************************************)
(* The environment of the process and the remote zone.                     *)
(***************************************************************************)
\* Only HOSTNAME and the credentials set: every slot uses the shared hostname.
DefaultEnv ==
    [ CF_API_TOKEN |-> Some("tok"), CF_ZONE_ID |-> Some("zid"),
      HOSTNAME |-> Some("h"), INTERNAL_DOMAIN |-> None,
      EXTERNAL_DOMAIN |-> None, IPV6_DOMAIN |-> None, CF_PROXIED |-> None ]

\* Environments with every required variable set.
CompleteEnvs ==
    { DefaultEnv,
      [DefaultEnv EXCEPT !.INTERNAL_DOMAIN = Some("a")],
      [DefaultEnv EXCEPT !.INTERNAL_DOMAIN = Some("a"), !.IPV6_DOMAIN = Some(""),
                         !.CF_PROXIED = Some("True")] }

\* Environments with a required variable unset or empty.
IncompleteEnvs ==
    { [DefaultEnv EXCEPT ![v] = x] :
        v \in {"CF_API_TOKEN", "CF_ZONE_ID", "HOSTNAME"}, x \in {None, Some("")} }

Environments == CompleteEnvs \cup IncompleteEnvs

Rec(id, name, type, content, proxied) ==
    [id |-> id, name |-> name, type |-> type, content |-> content,
     ttl |-> TTL, proxied |-> proxied]

\* A record of the zone that no slot of any configuration names.
OtherRecord == Rec("r0", "www", "A", <<198, 51, 100, 7>>, FALSE)

\* Records the zone may hold for the slots' names before the first run; the
\* provider allows several address records of one name and type.
InitialCandidates ==
    { Rec("r1", "h", "A", <<192, 0, 2, 1>>, FALSE),
      Rec("r2", "h", "A", <<192, 0, 2, 2>>, FALSE),
      Rec("r3", "h", "AAAA", <<8193, 3512, 0, 0, 0, 0, 0, 9>>, FALSE) }

FirstFreshId == Cardinality(InitialCandidates) + 1

RecordId(n) == "r" \o ToString(n)

\* At most one record per (name, type) pair.
OnePerPair(z) ==
    \A r1 \in z, r2 \in z : (r1.name = r2.name /\ r1.type = r2.type) => r1 = r2

\* The records of a zone without the provider's ids.
Contents(z) ==
    { [name |-> r.name, type |-> r.type, content |-> r.content,
       ttl |-> r.ttl, proxied |-> r.proxied] : r \in z }

\* Outcomes of one HTTP request: requests.<method> raises, raise_for_status()
\* raises, or the JSON payload arrives with success false or true.
Responses == {"transport_error", "http_error", "success_false", "success_true"}

VARIABLES
    env,            \* os.environ of the process
    zone,           \* the records of the remote zone
    next_id,        \* the provider's id counter
    runs,           \* invocations of the process so far
    pc,             \* position of the running process in main()
    slot,           \* 1: internal IPv4, 2: external IPv4, 3: external IPv6
    internal_ipv4, external_ipv4, external_ipv6,   \* main's locals
    record_id,      \* local of upsert_record / delete_record_if_exists
    success_count, total_count,
    exit_code,      \* None while running, else the process exit status
    network,        \* history: detections and HTTP requests of this run
    calls,          \* history: updater calls main made in this run
    results,        \* history: what those calls returned
    response,       \* the outcome of the latest HTTP request
    all_ok,         \* history: every HTTP request of this run had success true
    zone0,          \* history: the zone when this run started
    prev,           \* history: summary of the previous run
    reliable,       \* whether the provider and the network never fail
    host            \* history: the host as the get_internal_ipv4 call that
                    \* just returned saw it

vars == <<env, zone, next_id, runs, pc, slot, internal_ipv4, external_ipv4,
          external_ipv6, record_id, success_count, total_count, exit_code,
          network, calls, results, response, all_ok, zone0, prev, reliable,
          host>>

(***************************************************************************)
(* IPAddressDetector                                                       *)
(***************************************************************************)
PrivateV4 == <<10, 0, 0, 5>>
LoopbackV4 == <<127, 0, 0, 1>>
PublicV4 == <<203, 0, 113, 5>>
PublicV6 == <<8193, 3512, 0, 0, 0, 0, 0, 1>>
NotAnAddress == <<0>>

IsIPv4(s) == Len(s) = 4 /\ \A i \in 1..4 : s[i] \in 0..255
IsIPv6(s) == Len(s) = 8 /\ \A i \in 1..8 : s[i] \in 0..65535

\* Mutant: the second range taken as 172.0.0.0/8.
InRFC1918Wide(ip) ==
    \/ ip[1] = 10
    \/ ip[1] = 172
    \/ ip[1] = 192 /\ ip[2] = 168

\* ip in one of RFC1918_RANGES
InRFC1918(ip) ==
    \/ ip[1] = 10
    \/ ip[1] = 172 /\ ip[2] \in 16..31
    \/ ip[1] = 192 /\ ip[2] = 168

\* What a detector call does: return a value, or raise to main().
Returned(v) == [raised |-> FALSE, value |-> v]
Raised == [raised |-> TRUE, value |-> None]

\* The host as get_internal_ipv4 sees it: whether netifaces imports, whether
\* enumerating interfaces or reading their addresses raises, the 'addr'
\* strings in enumeration order, and the fallback socket's outcome.
Hosts ==
    [ netifaces : BOOLEAN,
      enum_raises : BOOLEAN,
      addrs : {<<>>, <<LoopbackV4, PrivateV4>>, <<NotAnAddress, PublicV4>>},
      sock_raises : BOOLEAN,
      sockname : {PrivateV4, PublicV4} ]

\* Addresses on both sides of each edge of the three ranges, a public
\* address and a string that is no address.
ProbeAddrs ==
    { <<9, 255, 255, 255>>, <<10, 0, 0, 0>>, <<10, 255, 255, 255>>, <<11, 0, 0, 0>>,
      <<172, 15, 255, 255>>, <<172, 16, 0, 0>>, <<172, 31, 255, 255>>, <<172, 32, 0, 0>>,
      <<192, 167, 255, 255>>, <<192, 168, 0, 0>>, <<192, 168, 255, 255>>, <<192, 169, 0, 0>>,
      PublicV4, NotAnAddress }

\* Hosts for get_internal_ipv4 alone: up to MaxAddrs enumerated addresses
\* when netifaces imports, any bound address when it does not.
ProbeHosts ==
    [ netifaces : {TRUE},
      enum_raises : BOOLEAN,
      addrs : UNION { [1..n -> ProbeAddrs] : n \in 0..MaxAddrs },
      sock_raises : {FALSE},
      sockname : {PublicV4} ]
    \cup
    [ netifaces : {FALSE},
      enum_raises : {FALSE},
      addrs : {<<>>},
      sock_raises : BOOLEAN,
      sockname : ProbeAddrs ]

\* The loop of lines 49-63: the first enumerated address in a private range.
RECURSIVE ScanAddrs(_)
ScanAddrs(addrs) ==
    IF addrs = <<>> THEN None
    ELSE IF IsIPv4(Head(addrs)) /\ InRFC1918(Head(addrs)) THEN Some(Head(addrs))
    ELSE ScanAddrs(Tail(addrs))

get_internal_ipv4(h) ==
    IF h.netifaces
    THEN IF h.enum_raises THEN Raised     \* only ImportError is caught
         ELSE Returned(ScanAddrs(h.addrs))
    ELSE IF h.sock_raises THEN Returned(None)
         ELSE IF IsIPv4(h.sockname) /\ InRFC1918(h.sockname)
              THEN Returned(Some(h.sockname))
              ELSE Returned(None)

\* What resolver.resolve gives: an exception (DNS failure, timeout), or the
\* TXT strings (quotes stripped) of the answer, in order.
Answers ==
    [ error : {TRUE}, txt : {<<>>} ] \cup
    [ error : {FALSE},
      txt : {<<>>, <<PublicV4>>, <<PublicV6>>, <<NotAnAddress, PublicV4>>} ]

get_external_ipv4(ans) ==
    IF ans.error THEN Returned(None)
    ELSE IF ans.txt = <<>> THEN Returned(None)
    ELSE IF IsIPv4(Head(ans.txt)) THEN Returned(Some(Head(ans.txt)))
    ELSE Returned(None)

get_external_ipv6(ans) ==
    IF ans.error THEN Returned(None)
    ELSE IF ans.txt = <<>> THEN Returned(None)
    ELSE IF IsIPv6(Head(ans.txt)) THEN Returned(Some(Head(ans.txt)))
    ELSE Returned(None)

\* Python truthiness of a detector's Optional[str] result.
Detected(v) == v # None /\ v[1] # <<>>

(***************************************************************************)
(* main(): configuration                                                   *)
(***************************************************************************)
RequiredVars == <<"CF_API_TOKEN", "CF_ZONE_ID", "HOSTNAME">>

\* Mutant: only an unset variable, not an empty one, ends the process.
ExitsOnUnsetOnly(var_name, required) == required /\ env[var_name] = None

\* get_env_or_exit(var_name, required) calls sys.exit(1)
ExitsOn(var_name, required) == required /\ ~Truthy(env[var_name])

ConfigMissing == \E i \in 1..Len(RequiredVars) : ExitsOn(RequiredVars[i], TRUE)

hostname == env["HOSTNAME"]
internal_domain == PyOr(env["INTERNAL_DOMAIN"], hostname)[1]
external_domain == PyOr(env["EXTERNAL_DOMAIN"], hostname)[1]
ipv6_domain == PyOr(env["IPV6_DOMAIN"], hostname)[1]
proxied ==
    Lower(IF env["CF_PROXIED"] = None THEN "false" ELSE env["CF_PROXIED"][1]) = "true"

\* Mutant: the external IPv4 slot uses the internal slot's domain.
SlotDomainCopied(s) == CASE s = 1 -> internal_domain
                         [] s = 2 -> internal_domain
                         [] s = 3 -> ipv6_domain

SlotDomain(s) == CASE s = 1 -> internal_domain
                   [] s = 2 -> external_domain
                   [] s = 3 -> ipv6_domain
SlotType(s) == IF s = 3 THEN "AAAA" ELSE "A"
SlotAddress(s) == CASE s = 1 -> internal_ipv4
                    [] s = 2 -> external_ipv4
                    [] s = 3 -> external_ipv6

\* An entry of the history of calls; a call of delete_record_if_exists passes
\* neither content nor proxied.
Call(fn, name, type, content, prox) ==
    [fn |-> fn, name |-> name, type |-> type, content |-> content, proxied |-> prox]

\* The call main() makes for a slot: upsert_record when the detected address
\* is truthy, delete_record_if_exists otherwise.
SlotCall(s) ==
    IF Detected(SlotAddress(s))
    THEN Call("upsert_record", SlotDomain(s), SlotType(s), SlotAddress(s), proxied)
    ELSE Call("delete_record_if_exists", SlotDomain(s), SlotType(s), None, FALSE)

(***************************************************************************)
(* CloudFlareUpdater: what each method returns and does to the zone        *)
(***************************************************************************)
\* The provider's answer to GET dns_records?name=..&type=..
Matches(name, type) == { r \in zone : r.name = name /\ r.type = type }

\* Mutant: the lookup never finds a record.
get_record_id_none(name, type, resp) == { None }

\* get_record_id: the id of the first record of the result array (the
\* provider chooses the order), None when the request fails, the payload has
\* success false, or the result is empty.
get_record_id(name, type, resp) ==
    IF resp = "success_true" /\ Matches(name, type) # {}
    THEN { Some(r.id) : r \in Matches(name, type) }
    ELSE { None }

\* Mutant: any response with a good HTTP status counts as success.
MutationResultByStatus(resp) == resp \in {"success_false", "success_true"}

\* create_record, update_record, delete_record: True only on a payload with
\* success true.
MutationResult(resp) == resp = "success_true"

\* The record the provider stores for a POST.
Created(name, type, content, prox) == Rec(RecordId(next_id), name, type, content, prox)

\* The zone after the provider served PUT dns_records/<id>.
Updated(id, name, type, content, prox) ==
    { IF r.id = id THEN Rec(id, name, type, content, prox) ELSE r : r \in zone }

\* Mutant: the provider deletes every record of the type of the one named.
DeletedByType(id) ==
    { r \in zone : \A d \in zone : d.id = id => r.type # d.type }

\* The zone after the provider served DELETE dns_records/<id>.
Deleted(id) == { r \in zone : r.id # id }

\* An entry of the history of network activity; s is the slot the request
\* serves, 0 for a detection.
Request(method, s, id, name, type, content) ==
    [method |-> method, slot |-> s, id |-> id, name |-> name, type |-> type,
     content |-> content]

\* Mutant: upsert_record creates whatever the lookup returned.
UpsertAlwaysCreates(rid) == "create_record"

\* upsert_record, lines 321-324.
UpsertBranch(rid) == IF Truthy(rid) THEN "update_record" ELSE "create_record"

\* delete_record_if_exists, lines 300-304.
DeleteBranch(rid) == IF Truthy(rid) THEN "delete_record" ELSE "return"

\* Mutant: no record id counts as a failed deletion.
NothingToDeleteFails == FALSE

\* What delete_record_if_exists returns when there is no record id.
NothingToDeleteResult == TRUE

(***************************************************************************)
(* Initial states                                                          *)
(***************************************************************************)
NoPrev == [ok |-> FALSE]

InitWith(rel) ==
    /\ reliable = rel
    /\ env \in Environments
    /\ zone \in { {OtherRecord} \cup z : z \in SUBSET InitialCandidates }
    /\ next_id = FirstFreshId
    /\ runs = 0
    /\ pc = "idle"
    /\ slot = 1
    /\ internal_ipv4 = None
    /\ external_ipv4 = None
    /\ external_ipv6 = None
    /\ record_id = None
    /\ success_count = 0
    /\ total_count = 0
    /\ exit_code = None
    /\ network = <<>>
    /\ calls = <<>>
    /\ results = <<>>
    /\ response = "none"
    /\ all_ok = TRUE
    /\ zone0 = zone
    /\ prev = NoPrev
    /\ host = None

\* Requests may fail.
Init == InitWith(FALSE)

\* No request fails.
InitReliable == InitWith(TRUE)

(***************************************************************************)
(* main()                                                                  *)
(***************************************************************************)
\* The provider, or the network, answers a request.
Respond(resp) ==
    /\ reliable => resp = "success_true"
    /\ response' = resp
    /\ all_ok' = (all_ok /\ resp = "success_true")
    /\ UNCHANGED <<reliable, host>>

\* Lines 349-360: an unset or empty required variable ends the process with
\* sys.exit(1); otherwise the run goes on to detection.
LoadConfig ==
    /\ pc = "config"
    /\ IF ConfigMissing
       THEN /\ pc' = "config_exit"
            /\ exit_code' = Some(1)
       ELSE /\ pc' = "detect_internal"
            /\ UNCHANGED exit_code
    /\ UNCHANGED <<env, zone, next_id, runs, slot, internal_ipv4, external_ipv4,
                   external_ipv6, record_id, success_count, total_count,
                   network, calls, results, response, all_ok, zone0, prev, reliable,
                   host>>

\* Mutant: reconciliation starts as soon as the internal address is known.
DetectInternalOnly(hs) ==
    /\ pc = "detect_internal"
    /\ \E h \in hs :
         LET out == get_internal_ipv4(h) IN
         /\ host' = Some(h)
         /\ IF out.raised
            THEN /\ pc' = "traceback"
                 /\ exit_code' = Some(1)
                 /\ UNCHANGED internal_ipv4
            ELSE /\ pc' = "lookup"
                 /\ internal_ipv4' = out.value
                 /\ UNCHANGED exit_code
    /\ network' = Append(network, Request("INTERFACES", 0, "", "", "", <<>>))
    /\ UNCHANGED <<env, zone, next_id, runs, slot, external_ipv4, external_ipv6,
                   record_id, success_count, total_count, calls, results,
                   response, all_ok, zone0, prev, reliable>>

\* Line 364. An exception get_internal_ipv4 lets through ends the process
\* with a traceback and exit status 1.
get_internal_ipv4_call(hs) ==
    /\ pc = "detect_internal"
    /\ \E h \in hs :
         LET out == get_internal_ipv4(h) IN
         /\ host' = Some(h)
         /\ IF out.raised
            THEN /\ pc' = "traceback"
                 /\ exit_code' = Some(1)
                 /\ UNCHANGED internal_ipv4
            ELSE /\ pc' = "detect_external_ipv4"
                 /\ internal_ipv4' = out.value
                 /\ UNCHANGED exit_code
    /\ network' = Append(network, Request("INTERFACES", 0, "", "", "", <<>>))
    /\ UNCHANGED <<env, zone, next_id, runs, slot, external_ipv4, external_ipv6,
                   record_id, success_count, total_count, calls, results,
                   response, all_ok, zone0, prev, reliable>>

\* The call on one of the hosts of the whole-run specifications.
DetectInternal == get_internal_ipv4_call(Hosts)

\* The call on one of the hosts that probe the edges of the private ranges.
DetectInternalProbe == get_internal_ipv4_call(ProbeHosts)

\* Line 365.
DetectExternalV4 ==
    /\ pc = "detect_external_ipv4"
    /\ \E ans \in Answers : external_ipv4' = get_external_ipv4(ans).value
    /\ pc' = "detect_external_ipv6"
    /\ host' = None
    /\ network' = Append(network, Request("DNS", 0, "", "o-o.myaddr.l.google.com", "TXT", <<>>))
    /\ UNCHANGED <<env, zone, next_id, runs, slot, internal_ipv4, external_ipv6,
                   record_id, success_count, total_count, exit_code, calls,
                   results, response, all_ok, zone0, prev, reliable>>

\* Lines 366-372.
DetectExternalV6 ==
    /\ pc = "detect_external_ipv6"
    /\ \E ans \in Answers : external_ipv6' = get_external_ipv6(ans).value
    /\ pc' = "lookup"
    /\ slot' = 1
    /\ success_count' = 0
    /\ total_count' = 0
    /\ network' = Append(network, Request("DNS", 0, "", "o-o.myaddr.l.google.com", "TXT", <<>>))
    /\ UNCHANGED <<env, zone, next_id, runs, internal_ipv4, external_ipv4,
                   record_id, exit_code, calls, results, response, all_ok,
                   zone0, prev, reliable,
                   host>>

\* main() enters the slot's branch (total_count += 1) and calls upsert_record
\* or delete_record_if_exists, whose first statement is get_record_id: one GET.
GetRecordId ==
    /\ pc = "lookup"
    /\ total_count' = total_count + 1
    /\ calls' = Append(calls, SlotCall(slot))
    /\ network' = Append(network, Request("GET", slot, "", SlotDomain(slot), SlotType(slot), <<>>))
    /\ \E resp \in Responses :
         /\ Respond(resp)
         /\ record_id' \in get_record_id(SlotDomain(slot), SlotType(slot), resp)
    /\ pc' = "mutate"
    /\ UNCHANGED <<env, zone, next_id, runs, slot, internal_ipv4, external_ipv4,
                   external_ipv6, success_count, exit_code, results, zone0, prev>>

\* Mutant: a call that returned False is made again.
ReturnRetries(result) ==
    IF result
    THEN /\ results' = Append(results, result)
         /\ success_count' = success_count + 1
         /\ IF slot < 3
            THEN /\ slot' = slot + 1
                 /\ pc' = "lookup"
            ELSE /\ slot' = slot
                 /\ pc' = "report"
    ELSE /\ pc' = "lookup"
         /\ UNCHANGED <<results, success_count, slot>>

\* Mutant: main() counts every call as a success.
ReturnCountsAll(result) ==
    /\ results' = Append(results, result)
    /\ success_count' = success_count + 1
    /\ IF slot < 3
       THEN /\ slot' = slot + 1
            /\ pc' = "lookup"
       ELSE /\ slot' = slot
            /\ pc' = "report"

\* The return of the slot's call to main(): success_count += 1 on True, then
\* the next slot, or the report after the third.  record_id keeps the value
\* the call looked up until the next call looks up its own.
Return(result) ==
    /\ results' = Append(results, result)
    /\ success_count' = IF result THEN success_count + 1 ELSE success_count
    /\ IF slot < 3
       THEN /\ slot' = slot + 1
            /\ pc' = "lookup"
       ELSE /\ slot' = slot
            /\ pc' = "report"

\* upsert_record, record_id falsy: create_record, one POST.
CreateRecord ==
    /\ pc = "mutate"
    /\ SlotCall(slot).fn = "upsert_record"
    /\ UpsertBranch(record_id) = "create_record"
    /\ network' = Append(network, Request("POST", slot, "", SlotDomain(slot), SlotType(slot),
                                          SlotAddress(slot)[1]))
    /\ \E resp \in Responses :
         /\ Respond(resp)
         /\ IF resp = "success_true"
            THEN /\ zone' = zone \cup {Created(SlotDomain(slot), SlotType(slot),
                                               SlotAddress(slot)[1], proxied)}
                 /\ next_id' = next_id + 1
            ELSE UNCHANGED <<zone, next_id>>
         /\ Return(MutationResult(resp))
    /\ UNCHANGED <<env, record_id, runs, internal_ipv4, external_ipv4, external_ipv6,
                   total_count, exit_code, calls, zone0, prev>>

\* upsert_record, record_id truthy: update_record, one PUT to that id.
UpdateRecord ==
    /\ pc = "mutate"
    /\ SlotCall(slot).fn = "upsert_record"
    /\ UpsertBranch(record_id) = "update_record"
    /\ network' = Append(network, Request("PUT", slot, record_id[1], SlotDomain(slot),
                                          SlotType(slot), SlotAddress(slot)[1]))
    /\ \E resp \in Responses :
         /\ Respond(resp)
         /\ zone' = IF resp = "success_true"
                    THEN Updated(record_id[1], SlotDomain(slot), SlotType(slot),
                                 SlotAddress(slot)[1], proxied)
                    ELSE zone
         /\ Return(MutationResult(resp))
    /\ UNCHANGED <<env, record_id, next_id, runs, internal_ipv4, external_ipv4, external_ipv6,
                   total_count, exit_code, calls, zone0, prev>>

\* delete_record_if_exists, record_id truthy: delete_record, one DELETE.
DeleteRecord ==
    /\ pc = "mutate"
    /\ SlotCall(slot).fn = "delete_record_if_exists"
    /\ DeleteBranch(record_id) = "delete_record"
    /\ network' = Append(network, Request("DELETE", slot, record_id[1], SlotDomain(slot),
                                          SlotType(slot), <<>>))
    /\ \E resp \in Responses :
         /\ Respond(resp)
         /\ zone' = IF resp = "success_true" THEN Deleted(record_id[1]) ELSE zone
         /\ Return(MutationResult(resp))
    /\ UNCHANGED <<env, record_id, next_id, runs, internal_ipv4, external_ipv4, external_ipv6,
                   total_count, exit_code, calls, zone0, prev>>

\* delete_record_if_exists, record_id falsy: nothing to delete, True.
NothingToDelete ==
    /\ pc = "mutate"
    /\ SlotCall(slot).fn = "delete_record_if_exists"
    /\ DeleteBranch(record_id) = "return"
    /\ Return(NothingToDeleteResult)
    /\ UNCHANGED <<env, record_id, zone, next_id, runs, internal_ipv4, external_ipv4,
                   external_ipv6, total_count, exit_code, network, calls,
                   response, all_ok, zone0, prev, reliable,
                   host>>

\* Mutant: any success gives exit status 0.
ExitStatusAnySuccess(succeeded, attempted) ==
    IF succeeded > 0 THEN 0 ELSE 1

\* The request the call in progress sends next: the GET of get_record_id, or
\* the POST, PUT or DELETE its branch leads to.
NextRequest ==
    IF pc = "lookup"
    THEN Request("GET", slot, "", SlotDomain(slot), SlotType(slot), <<>>)
    ELSE IF SlotCall(slot).fn = "upsert_record"
    THEN IF UpsertBranch(record_id) = "update_record"
         THEN Request("PUT", slot, record_id[1], SlotDomain(slot), SlotType(slot),
                      SlotAddress(slot)[1])
         ELSE Request("POST", slot, "", SlotDomain(slot), SlotType(slot),
                      SlotAddress(slot)[1])
    ELSE Request("DELETE", slot, record_id[1], SlotDomain(slot), SlotType(slot), <<>>)

\* requests.get/post/put/delete are called without a timeout argument: when
\* the provider accepts the request and never answers, the call never
\* returns and the process waits for ever.  (The DNS queries of the detectors
\* end by the resolver's default lifetime.)
NoAnswer ==
    /\ ~reliable
    /\ \/ pc = "lookup"
       \/ pc = "mutate" /\ ~( /\ SlotCall(slot).fn = "delete_record_if_exists"
                              /\ DeleteBranch(record_id) = "return" )
    /\ network' = Append(network, NextRequest)
    /\ IF pc = "lookup"
       THEN /\ total_count' = total_count + 1
            /\ calls' = Append(calls, SlotCall(slot))
       ELSE UNCHANGED <<total_count, calls>>
    /\ pc' = "blocked"
    /\ UNCHANGED <<env, zone, next_id, runs, slot, internal_ipv4, external_ipv4,
                   external_ipv6, record_id, success_count, exit_code, results,
                   response, all_ok, zone0, prev, reliable,
                   host>>

\* Lines 410-418: the exit status.
ExitStatus(succeeded, attempted) ==
    IF succeeded = attempted /\ attempted > 0 THEN 0
    ELSE IF succeeded > 0 THEN 1
    ELSE 1

\* Lines 407-418.
Report ==
    /\ pc = "report"
    /\ exit_code' = Some(ExitStatus(success_count, total_count))
    /\ pc' = "done"
    /\ UNCHANGED <<env, zone, next_id, runs, slot, internal_ipv4, external_ipv4,
                   external_ipv6, record_id, success_count, total_count,
                   network, calls, results, response, all_ok, zone0, prev, reliable,
                   host>>

Exited == pc \in {"config_exit", "traceback", "done"}

RunLimit == IF reliable THEN MaxReliableRuns ELSE MaxRuns

\* The scheduler invokes the process again: nothing of the previous process
\* survives but the zone.
Invoke ==
    /\ pc = "idle" \/ Exited
    /\ runs < RunLimit
    /\ runs' = runs + 1
    /\ prev' = IF pc = "done" /\ all_ok
               THEN [ok |-> TRUE,
                     detected |-> <<internal_ipv4, external_ipv4, external_ipv6>>,
                     success_count |-> success_count, total_count |-> total_count,
                     exit_code |-> exit_code, unique0 |-> OnePerPair(zone0)]
               ELSE NoPrev
    /\ pc' = "config"
    /\ slot' = 1
    /\ internal_ipv4' = None
    /\ external_ipv4' = None
    /\ external_ipv6' = None
    /\ record_id' = None
    /\ success_count' = 0
    /\ total_count' = 0
    /\ exit_code' = None
    /\ network' = <<>>
    /\ calls' = <<>>
    /\ results' = <<>>
    /\ response' = "none"
    /\ all_ok' = TRUE
    /\ zone0' = zone
    /\ host' = None
    /\ UNCHANGED <<env, zone, next_id, reliable>>

Next ==
    \/ LoadConfig
    \/ DetectInternal
    \/ DetectExternalV4
    \/ DetectExternalV6
    \/ GetRecordId
    \/ CreateRecord
    \/ UpdateRecord
    \/ DeleteRecord
    \/ NothingToDelete
    \/ NoAnswer
    \/ Report
    \/ Invoke

Spec == Init /\ [][Next]_vars

\* The steps of a run when every HTTP request is answered.
NextReliable ==
    \/ LoadConfig
    \/ DetectInternal
    \/ DetectExternalV4
    \/ DetectExternalV6
    \/ GetRecordId
    \/ CreateRecord
    \/ UpdateRecord
    \/ DeleteRecord
    \/ NothingToDelete
    \/ Report
    \/ Invoke

\* The behaviours in which every HTTP request succeeds.
SpecReliable == InitReliable /\ [][NextReliable]_vars

\* get_internal_ipv4 alone, on the probing hosts.
NextDetector ==
    \/ Invoke
    \/ LoadConfig
    \/ DetectInternalProbe

SpecDetector == Init /\ [][NextDetector]_vars

\* The same under a scheduler that keeps re-invoking the run: every request
\* is answered, so each step of main() is eventually taken.
SpecScheduled == SpecReliable /\ WF_vars(NextReliable)

(***************************************************************************)
(* Properties                                                              *)
(***************************************************************************)
\* The provider requests of slot s in this run, in the order they were sent.
SlotRequests(s) == SelectSeq(network, LAMBDA r : r.slot = s)

Methods(rq) == [i \in 1..Len(rq) |-> rq[i].method]

\* All three calls were made and have returned to main().
Returned3 == Len(calls) = 3 /\ Len(results) = 3

PassedConfig == pc \notin {"idle", "config", "config_exit"}

\* C1: every run that passes configuration loading attempts all three slots:
\* it ends at the report, after three calls that each returned an outcome.
C1_AllSlotsAttempted ==
    (Exited /\ PassedConfig) => (pc = "done" /\ Returned3)

\* C2: each slot adds exactly 1 to the attempted count and at most 1 to the
\* succeeded count; at the summary attempted = 3, 0 <= succeeded <= attempted,
\* and succeeded is the number of slots whose call returned true.
C2_Counts ==
    /\ total_count = Len(calls)
    /\ Len(results) <= Len(calls)
    /\ Len(calls) <= Len(results) + 1
    /\ success_count = Cardinality({ s \in 1..Len(results) : results[s] })
    /\ pc \in {"report", "done"} =>
         /\ total_count = 3
         /\ Len(results) = 3
         /\ success_count >= 0
         /\ success_count <= total_count

\* A summary of 2/3 after an upsert and a delete-if-exists, the second slot
\* having failed.
C2_Witness ==
    /\ pc = "done"
    /\ success_count = 2
    /\ total_count = 3
    /\ results = <<TRUE, FALSE, TRUE>>
    /\ \E i \in 1..3 : calls[i].fn = "upsert_record"
    /\ \E i \in 1..3 : calls[i].fn = "delete_record_if_exists"

\* The call main() is to make for a slot, given what the detector returned.
C3_Expected(address, domain, kind) ==
    IF address # None
    THEN [fn |-> "upsert_record", name |-> domain, type |-> kind,
          content |-> address, proxied |-> proxied]
    ELSE [fn |-> "delete_record_if_exists", name |-> domain, type |-> kind,
          content |-> None, proxied |-> FALSE]

\* C3: the call made for a slot is upsert_record, with the slot's domain, kind,
\* detected address and the proxied flag, exactly when the detector returned an
\* address, and delete_record_if_exists, with the slot's domain and kind,
\* exactly when it returned None; the calls are made in the order internal
\* IPv4 (A), external IPv4 (A), external IPv6 (AAAA), and all three are made by
\* the time of the report.
C3_CallPerSlot ==
    /\ Len(calls) >= 1 => calls[1] = C3_Expected(internal_ipv4, internal_domain, "A")
    /\ Len(calls) >= 2 => calls[2] = C3_Expected(external_ipv4, external_domain, "A")
    /\ Len(calls) >= 3 => calls[3] = C3_Expected(external_ipv6, ipv6_domain, "AAAA")
    /\ Len(calls) <= 3
    /\ pc \in {"report", "done"} => Len(calls) = 3

\* Detections {present, absent, present}: upsert, delete-if-exists, upsert.
C3_Witness ==
    /\ pc = "done"
    /\ internal_ipv4 # None /\ external_ipv4 = None /\ external_ipv6 # None
    /\ [i \in 1..3 |-> calls[i].fn] =
         <<"upsert_record", "delete_record_if_exists", "upsert_record">>
    /\ internal_domain # external_domain

\* The slot whose call returned last, while record_id and response still hold
\* what that call looked up and the outcome of its last request.
LastReturned == Len(results)
JustReturned == Len(results) >= 1 /\ Len(results) = Len(calls) /\ pc # "idle"

\* C4: a call of upsert_record sends one GET and then exactly one of PUT or
\* POST: a PUT to the id get_record_id returned when it returned one, a POST
\* when it returned None; the call returns what that request returned.
C4_UpsertOneMutation ==
    /\ \A s \in 1..Len(calls) :
         calls[s].fn = "upsert_record" =>
           LET rq == SlotRequests(s) IN
           IF s <= Len(results)
           THEN /\ Len(rq) = 2
                /\ rq[1].method = "GET"
                /\ rq[1].name = calls[s].name /\ rq[1].type = calls[s].type
                /\ rq[2].method \in {"PUT", "POST"}
                /\ rq[2].name = calls[s].name /\ rq[2].type = calls[s].type
                /\ rq[2].content = calls[s].content[1]
           ELSE \/ Methods(rq) = <<"GET">>
                \/ /\ pc = "blocked"
                   /\ Methods(rq) \in {<<"GET", "PUT">>, <<"GET", "POST">>}
    /\ (JustReturned /\ calls[LastReturned].fn = "upsert_record") =>
         LET rq == SlotRequests(LastReturned) IN
         /\ IF record_id # None
            THEN rq[2].method = "PUT" /\ rq[2].id = record_id[1]
            ELSE rq[2].method = "POST"
         /\ results[LastReturned] = (response = "success_true")

\* A run whose first upsert created (nothing to find) and whose second upsert
\* updated the record its lookup found.
C4_Witness ==
    /\ Len(results) = 2
    /\ calls[1].fn = "upsert_record"
    /\ calls[2].fn = "upsert_record"
    /\ Methods(SlotRequests(1)) = <<"GET", "POST">>
    /\ Methods(SlotRequests(2)) = <<"GET", "PUT">>
    /\ results = <<FALSE, TRUE>>

C6_ExitCode ==
    pc = "done" =>
      /\ exit_code \in {Some(0), Some(1)}
      /\ exit_code = Some(0) <=> (success_count = total_count /\ total_count > 0)
      /\ (success_count > 0 /\ success_count < total_count) => exit_code = Some(1)
      /\ success_count = 0 => exit_code # Some(0)
      /\ ( /\ internal_ipv4 = None /\ external_ipv4 = None /\ external_ipv6 = None
           /\ results = <<TRUE, TRUE, TRUE>> ) =>
           (exit_code = Some(0) /\ success_count = 3 /\ total_count = 3)
      /\ Cardinality({ s \in 1..3 : ~results[s] }) = 1 =>
           (exit_code = Some(1) /\ success_count = 2 /\ total_count = 3)

\* Three absent detections, one record deleted and nothing to delete for
\* another slot: exit code 0.
C6_Witness ==
    /\ pc = "done"
    /\ internal_ipv4 = None /\ external_ipv4 = None /\ external_ipv6 = None
    /\ exit_code = Some(0)
    /\ \E s \in 1..3 : Methods(SlotRequests(s)) = <<"GET", "DELETE">>
    /\ \E s \in 1..3 : Methods(SlotRequests(s)) = <<"GET">>

RequiredUnset ==
    \E v \in {"CF_API_TOKEN", "CF_ZONE_ID", "HOSTNAME"} : env[v] \in {None, Some("")}

\* C7: with a required variable unset or empty the process exits with a
\* non-zero code from configuration loading: no detection and no provider
\* request is made, and the zone is as the run found it.
C7_NoNetworkWithoutConfig ==
    (RequiredUnset /\ pc # "idle") =>
      /\ pc \in {"config", "config_exit"}
      /\ network = <<>>
      /\ calls = <<>>
      /\ zone = zone0
      /\ pc = "config_exit" => exit_code = Some(1)

\* The process has exited on an empty HOSTNAME.
C7_Witness ==
    /\ pc = "config_exit"
    /\ env["HOSTNAME"] = Some("")
    /\ env["CF_API_TOKEN"] = Some("tok")
    /\ exit_code = Some(1)

\* C8: a run that starts from a zone with at most one record per (name, type)
\* pair leaves at most one record per pair, whatever fails.
C8_OneRecordPerPair ==
    OnePerPair(zone0) => OnePerPair(zone)

\* C9: the calls of a run name pairwise distinct (name, type) pairs.
C9_DisjointTargets ==
    \A i \in 1..Len(calls), j \in 1..Len(calls) :
        i # j => <<calls[i].name, calls[i].type>> # <<calls[j].name, calls[j].type>>

\* A second run with the detection results of the first, no request of either
\* having failed.
SecondRunDone ==
    /\ pc = "done"
    /\ all_ok
    /\ prev.ok
    /\ prev.detected = <<internal_ipv4, external_ipv4, external_ipv6>>

\* The zone holds the same records as when the run started, ids aside, and
\* the run reports what the previous run reported.
SameAsFirstRun ==
    /\ Contents(zone) = Contents(zone0)
    /\ Cardinality(zone) = Cardinality(zone0)
    /\ success_count = prev.success_count
    /\ total_count = prev.total_count
    /\ exit_code = prev.exit_code

C10_Idempotent ==
    (SecondRunDone /\ prev.unique0) => SameAsFirstRun

\* A second run that deleted a record and created one again (a new id, the
\* same contents): the internal address is absent, the external present, and
\* both slots use the shared hostname.
C10_Witness ==
    /\ SecondRunDone
    /\ prev.unique0
    /\ internal_domain = external_domain
    /\ internal_ipv4 = None
    /\ external_ipv4 # None
    /\ Methods(SlotRequests(1)) = <<"GET", "DELETE">>
    /\ Methods(SlotRequests(2)) = <<"GET", "POST">>
    /\ zone # zone0

\* C11: no detector raises to main(): a run never ends with an exception out
\* of a detection call, and goes on to reconciliation.
C11_DetectorsNeverRaise ==
    pc # "traceback"

\* C12: no request blocks for ever: a running process is never left waiting
\* for an answer that does not come, so every run reaches its exit.
C12_NoRequestBlocks ==
    pc # "blocked"

\* C13: nothing is retried within a run: each slot sends at most one GET and
\* at most one of POST, PUT and DELETE, the GET first, whatever failed; a slot
\* whose call has returned sends nothing more.
C13_NoRetry ==
    /\ \A s \in 1..3 :
         LET rq == SlotRequests(s) IN
         /\ Len(rq) <= 2
         /\ Len(rq) >= 1 => rq[1].method = "GET"
         /\ Len(rq) = 2 => rq[2].method \in {"POST", "PUT", "DELETE"}
         /\ s > Len(calls) => rq = <<>>
    /\ Len(calls) <= 3
    /\ Len(SlotRequests(0)) <= 3

\* The PUT of the first slot failed and its call returned False: the run has
\* moved on to the second slot and its lookup, and sent nothing more for the
\* first.
C13_Witness ==
    /\ pc = "mutate"
    /\ slot = 2
    /\ results = <<FALSE>>
    /\ Methods(SlotRequests(1)) = <<"GET", "PUT">>
    /\ Methods(SlotRequests(2)) = <<"GET">>

\* C14: create_record, update_record and delete_record return True exactly
\* when the request ended without a transport or HTTP-status error and the
\* payload has success true; a payload with success false gives False, and
\* the slot is not counted as succeeded.
C14_SuccessFlag ==
    (JustReturned /\ Len(SlotRequests(LastReturned)) = 2) =>
      /\ response \in Responses
      /\ results[LastReturned] <=>
           (response \notin {"transport_error", "http_error"} /\ response # "success_false")
      /\ response = "success_false" =>
           /\ ~results[LastReturned]
           /\ success_count = Cardinality({ s \in 1..(LastReturned - 1) : results[s] })
           /\ success_count < total_count

\* A POST answered with HTTP 200 and success false: create_record returned
\* False.
C14_Witness ==
    /\ JustReturned
    /\ Methods(SlotRequests(LastReturned)) = <<"GET", "POST">>
    /\ response = "success_false"
    /\ ~results[LastReturned]

\* The zone agrees with the desired fact of slot s: a record of the slot's
\* (domain, type) holds the detected address, or, with no address detected,
\* the zone holds no record of that pair.
Agree(s) ==
    IF SlotAddress(s) # None
    THEN \E r \in Matches(SlotDomain(s), SlotType(s)) : r.content = SlotAddress(s)[1]
    ELSE Matches(SlotDomain(s), SlotType(s)) = {}

\* The three slots name pairwise distinct (domain, type) pairs.
DistinctTargets ==
    \A s \in 1..3, t \in 1..3 :
        s # t => <<SlotDomain(s), SlotType(s)>> # <<SlotDomain(t), SlotType(t)>>

\* C15: with pairwise distinct slot targets, at the end of a run in which
\* every provider request succeeded the zone agrees with the desired fact of
\* every slot.
C15_ZoneAgrees ==
    (pc = "done" /\ all_ok /\ DistinctTargets) => \A s \in 1..3 : Agree(s)

C17_Sequential ==
    LET n == Len(network) IN
    /\ \A i \in 1..(n - 1) : network[i].slot <= network[i + 1].slot
    /\ \A i \in 1..n : network[i].slot = 0 <=> i <= 3
    /\ n > 3 =>
         /\ network[1].method = "INTERFACES"
         /\ network[2].method = "DNS"
         /\ network[3].method = "DNS"
         /\ pc \in {"lookup", "mutate", "blocked", "report", "done"}
         /\ network[n].slot <= Len(calls)
         /\ network[n].slot <= Len(results) + 1

\* The lookup of the third slot is in flight after two requests each of the
\* first and the second slot.
C17_Witness ==
    /\ pc = "mutate"
    /\ slot = 3
    /\ Len(results) = 2
    /\ Len(network) = 8
    /\ Methods(SlotRequests(1)) \in {<<"GET", "PUT">>, <<"GET", "POST">>}
    /\ Len(SlotRequests(2)) = 2
    /\ Methods(SlotRequests(3)) = <<"GET">>

\* The leading 24 bits of an IPv4 address, as a number.
Top24(ip) == (ip[1] * 256 + ip[2]) * 256 + ip[3]

\* ip lies in the network net/bits (bits <= 24).
InPrefix(ip, net, bits) ==
    Top24(ip) \div 2^(24 - bits) = Top24(net) \div 2^(24 - bits)

\* 10.0.0.0/8, 172.16.0.0/12 and 192.168.0.0/16.
InPrivateRange(ip) ==
    /\ IsIPv4(ip)
    /\ \/ InPrefix(ip, <<10, 0, 0, 0>>, 8)
       \/ InPrefix(ip, <<172, 16, 0, 0>>, 12)
       \/ InPrefix(ip, <<192, 168, 0, 0>>, 16)

\* The first address of the enumeration inside the ranges, None without one.
FirstPrivate(addrs) ==
    LET inside == { i \in 1..Len(addrs) : InPrivateRange(addrs[i]) } IN
    IF inside = {} THEN None
    ELSE Some(addrs[CHOOSE i \in inside : \A j \in inside : i <= j])

\* C18: get_internal_ipv4 returns only addresses of 10.0.0.0/8, 172.16.0.0/12
\* or 192.168.0.0/16: with netifaces the first enumerated address inside
\* them (None without one), on the socket path the bound address when it is
\* inside them (None otherwise).
C18_InternalIsPrivate ==
    /\ internal_ipv4 # None => InPrivateRange(internal_ipv4[1])
    /\ (host # None /\ pc = "detect_external_ipv4") =>
         LET h == host[1] IN
         /\ h.netifaces => internal_ipv4 = FirstPrivate(h.addrs)
         /\ (~h.netifaces /\ ~h.sock_raises) =>
              internal_ipv4 = IF InPrivateRange(h.sockname) THEN Some(h.sockname) ELSE None
         /\ (~h.netifaces /\ h.sock_raises) => internal_ipv4 = None

\* The enumeration gave 172.32.0.0 and then 172.31.255.255: the second one
\* was returned.
C18_Witness ==
    /\ pc = "detect_external_ipv4"
    /\ host # None
    /\ host[1].netifaces
    /\ host[1].addrs = << <<172, 32, 0, 0>>, <<172, 31, 255, 255>> >>
    /\ internal_ipv4 = Some(<<172, 31, 255, 255>>)

\* C19: a run that exits with status 0 leaves the zone in agreement with the
\* desired fact of every slot.
C19_ExitZeroSound ==
    (pc = "done" /\ exit_code = Some(0)) => \A s \in 1..3 : Agree(s)

\* The (domain, type) pair of each slot.
SlotPairs == [ s \in 1..3 |-> <<SlotDomain(s), SlotType(s)>> ]

\* The records this run added, removed or rewrote.
Changed == (zone \ zone0) \cup (zone0 \ zone)

\* C20: a run changes only records of its own slots. Every POST, PUT and
\* DELETE names the (domain, type) pair of the slot it serves and directly
\* follows that slot's lookup of the same pair; the id of a PUT or DELETE is
\* the id that lookup returned; records of any other name or type are as they
\* were when the run started.
C20_OnlyOwnRecords ==
    IF ~PassedConfig THEN zone = zone0
    ELSE LET pairs == SlotPairs
             n == Len(network) IN
         /\ \A i \in 4..n :
              LET rq == network[i]
                  lookup == network[i - 1] IN
              rq.method # "GET" =>
                /\ rq.method \in {"POST", "PUT", "DELETE"}
                /\ rq.slot \in 1..3
                /\ <<rq.name, rq.type>> = pairs[rq.slot]
                /\ lookup.method = "GET"
                /\ lookup.slot = rq.slot
                /\ <<lookup.name, lookup.type>> = <<rq.name, rq.type>>
                /\ rq.method \in {"PUT", "DELETE"} =>
                     /\ rq.id # ""
                     /\ i = n => record_id = Some(rq.id)
         /\ \A i \in 1..n : i <= 3 => network[i].method \in {"INTERFACES", "DNS"}
         /\ \A r \in Changed : \E s \in 1..3 : <<r.name, r.type>> = pairs[s]
         /\ OtherRecord \in zone

\* A run that updated the A record and deleted the AAAA record of h; the
\* record of www is still in the zone.
C20_Witness ==
    /\ pc = "done"
    /\ Methods(SlotRequests(2)) = <<"GET", "PUT">>
    /\ Methods(SlotRequests(3)) = <<"GET", "DELETE">>
    /\ results[2] /\ results[3]
    /\ zone # zone0
    /\ OtherRecord \in zone

====
